---- MODULE Spec2Model ----
(***************************************************************************)
(* The Silentia break-even / resource calculator.                          *)
(*                                                                         *)
(* The repository holds two variants of the same page script:              *)
(*   "live"  src/calculator.js       every input event calls update()      *)
(*   "calc"  src/unnamed/part_000    an explicit Calculate button          *)
(* The model carries the variant as a variable fixed at load time and      *)
(* translates both scripts.                                                *)
(*                                                                         *)
(* Numbers.  Money and counts are integers.  The break-even years are an   *)
(* exact rational [num, den] in lowest terms: the operands of that         *)
(* division are integers far below 2^53, so the IEEE quotient is the       *)
(* correctly rounded value of the rational and two quotients are equal     *)
(* doubles exactly when the rationals are equal.  The resource amounts and *)
(* the percentages of the charts are carried as IEEE doubles (see the      *)
(* section on doubles): toFixed() resolves decimal ties by the binary      *)
(* value, and the percentages are quotients of rounded values.             *)
(***************************************************************************)
EXTENDS Integers, Sequences, FiniteSets, TLC

VARIABLES
    variant,        \* which script the page loaded: "live" or "calc"
    costs,          \* the cost table the script was built with (COSTS)
    state,          \* the script's `state` object
    active,         \* the buttons the handlers marked 'active'
    roiText,        \* #roi-years textContent
    yearLabel,      \* .label textContent
    resourcesOut,   \* #resources-output innerHTML (the values interpolated)
    chartOut,       \* #chart-output innerHTML (the values interpolated)
    alerted         \* the alert() raised by the last handler, or NoAlert

vars == <<variant, costs, state, active, roiText, yearLabel, resourcesOut, chartOut, alerted>>

----------------------------------------------------------------------------
(* Bounds of the model *)

\* quantity texts "0" .. "MaxQuantity" can be typed
MaxQuantity == 4
\* quantity texts "-1" .. "-MaxNegative" can be typed
MaxNegative == 1
\* EngineSpec: the screen costs from 1 less up to MaxDiff more than a textile curtain
MaxDiff == 30
\* EngineSpec: quantities -1 .. MaxEngineQuantity
MaxEngineQuantity == 2
\* TableSpec: quantities 1 .. MaxTableQuantity
MaxTableQuantity == 6

----------------------------------------------------------------------------
(* Arithmetic helpers *)

Abs(x) == IF x < 0 THEN -x ELSE x

Max(a, b) == IF a >= b THEN a ELSE b

RECURSIVE GCD(_, _)
GCD(a, b) == IF b = 0 THEN a ELSE GCD(b, a % b)

\* the quotient n / d (d # 0) as a rational in lowest terms, den > 0
Frac(n, d) ==
    LET g == GCD(Abs(n), Abs(d))
        s == IF d < 0 THEN -1 ELSE 1
    IN  [num |-> s * (n \div g), den |-> s * (d \div g)]

Whole(n) == [num |-> n, den |-> 1]

\* a < b on rationals
Less(a, b) == a.num * b.den < b.num * a.den

\* a * k for an integer k
Times(a, k) == Frac(a.num * k, a.den)

\* Math.round: the integer nearest x, halves rounded towards +Infinity
MathRound(x) == (2 * x.num + x.den) \div (2 * x.den)

----------------------------------------------------------------------------
(* IEEE-754 doubles                                                        *)
(*                                                                         *)
(* A natural number of any size is a little-endian sequence of limbs in    *)
(* base 2^15 without leading zero limbs.  A non-negative double is         *)
(* [m, e], the value m * 2^e with m below 2^53 (m is a big natural).       *)
(* Products and literals are rounded to 53 bits, ties to even, as the      *)
(* hardware does; the quantities of the model stay far from the subnormal  *)
(* and overflow ranges.                                                    *)

Pow2(k) == 2^k

Limb == Pow2(15)

LimbBits == CHOOSE k \in 1..30 : Pow2(k) = Limb

SignificandBits == 53

RECURSIVE BigFromInt(_)
BigFromInt(n) == IF n = 0 THEN <<>> ELSE <<n % Limb>> \o BigFromInt(n \div Limb)

RECURSIVE BigToInt(_)
BigToInt(a) == IF a = <<>> THEN 0 ELSE a[1] + Limb * BigToInt(Tail(a))

\* drop leading (most significant) zero limbs
RECURSIVE BigTrim(_)
BigTrim(a) ==
    IF a = <<>> THEN a
    ELSE IF a[Len(a)] = 0 THEN BigTrim(SubSeq(a, 1, Len(a) - 1))
    ELSE a

RECURSIVE BigMulCarry(_, _, _)
BigMulCarry(a, k, carry) ==
    IF a = <<>> THEN BigFromInt(carry)
    ELSE LET t == a[1] * k + carry
         IN  <<t % Limb>> \o BigMulCarry(Tail(a), k, t \div Limb)

\* a * k for 0 <= k < 2^15
BigMulSmall(a, k) == BigTrim(BigMulCarry(a, k, 0))

RECURSIVE BitLength(_)
BitLength(n) == IF n = 0 THEN 0 ELSE 1 + BitLength(n \div 2)

BigBits(a) == IF a = <<>> THEN 0 ELSE LimbBits * (Len(a) - 1) + BitLength(a[Len(a)])

\* bit i (0 = least significant) of a
BigBit(a, i) ==
    LET j == (i \div LimbBits) + 1
    IN  IF i < 0 \/ j > Len(a) THEN 0 ELSE (a[j] \div Pow2(i % LimbBits)) % 2

\* TRUE iff the s low bits of a are all zero
BigLowZero(a, s) == \A i \in 0..(s - 1) : BigBit(a, i) = 0

\* floor(a / 2^s)
BigShr(a, s) ==
    LET drop == s \div LimbBits
        r    == s % LimbBits
        rest == IF drop >= Len(a) THEN <<>> ELSE SubSeq(a, drop + 1, Len(a))
        at(i) == IF i > Len(rest) THEN 0 ELSE rest[i]
    IN  BigTrim([i \in 1..Len(rest) |->
                    (at(i) \div Pow2(r)) + (at(i + 1) % Pow2(r)) * Pow2(LimbBits - r)])

\* a * 2^s
BigShl(a, s) ==
    IF a = <<>> THEN a
    ELSE BigMulSmall([i \in 1..(s \div LimbBits) |-> 0] \o a, Pow2(s % LimbBits))

\* a + 1
RECURSIVE BigInc(_)
BigInc(a) ==
    IF a = <<>> THEN <<1>>
    ELSE IF a[1] + 1 < Limb THEN <<a[1] + 1>> \o Tail(a)
    ELSE <<0>> \o BigInc(Tail(a))

\* [q, r] with a = q * d + r, for 0 < d < 2^15; limbs taken from the top
RECURSIVE BigDivRem(_, _, _, _)
BigDivRem(a, d, i, acc) ==
    IF i = 0 THEN [q |-> BigTrim(acc.q), r |-> acc.r]
    ELSE LET t == acc.r * Limb + a[i]
         IN  BigDivRem(a, d, i - 1, [q |-> <<t \div d>> \o acc.q, r |-> t % d])

BigDivSmall(a, d) == BigDivRem(a, d, Len(a), [q |-> <<>>, r |-> 0])

\* m * 2^e rounded to 53 significant bits, ties to even; `inexact` says that
\* m itself was already truncated (a non-zero remainder below its last bit)
Round53(m, e, inexact) ==
    LET s == BigBits(m) - SignificandBits
    IN  IF s <= 0 THEN [m |-> m, e |-> e]
        ELSE LET q      == BigShr(m, s)
                 half   == BigBit(m, s - 1) = 1
                 sticky == inexact \/ ~BigLowZero(m, s - 1)
                 up     == half /\ (sticky \/ BigBit(q, 0) = 1)
             IN  [m |-> IF up THEN BigInc(q) ELSE q, e |-> e + s]

\* the double a numeric literal n/d denotes (0.02 is 2/100), d < 2^15
DoubleOf(n, d) ==
    LET k  == 4 * LimbBits + LimbBits        \* 75 guard bits: quotient keeps > 53 bits
        qr == BigDivSmall(BigShl(BigFromInt(n), k), d)
    IN  Round53(qr.q, -k, qr.r # 0)

\* the double product x * k for an integer 0 <= k < 2^15
DoubleTimes(x, k) == Round53(BigMulSmall(x.m, k), x.e, FALSE)

\* Number.prototype.toFixed(digits), as the integer n with n / 10^digits nearest
\* to x, the larger n when two are equally near (0 <= digits <= 2)
ToFixed(x, digits) ==
    LET p == BigMulSmall(x.m, 10^digits)
    IN  IF x.e >= 0 THEN BigToInt(BigShl(p, x.e))
        ELSE BigToInt(BigShr(p, -x.e)) + BigBit(p, -x.e - 1)

\* a + b + carry, limb by limb
RECURSIVE BigAdd(_, _, _)
BigAdd(a, b, carry) ==
    IF a = <<>> /\ b = <<>> THEN BigFromInt(carry)
    ELSE IF a = <<>> THEN BigAdd(<<0>>, b, carry)
    ELSE IF b = <<>> THEN BigAdd(a, <<0>>, carry)
    ELSE <<(a[1] + b[1] + carry) % Limb>>
             \o BigAdd(Tail(a), Tail(b), (a[1] + b[1] + carry) \div Limb)

\* a - b - borrow for a >= b + borrow, limb by limb (not trimmed)
RECURSIVE BigSubBorrow(_, _, _)
BigSubBorrow(a, b, borrow) ==
    IF a = <<>> THEN <<>>
    ELSE IF b = <<>> THEN BigSubBorrow(a, <<0>>, borrow)
    ELSE <<(a[1] - b[1] - borrow + Limb) % Limb>>
             \o BigSubBorrow(Tail(a), Tail(b), IF a[1] - b[1] - borrow < 0 THEN 1 ELSE 0)

BigSub(a, b) == BigTrim(BigSubBorrow(a, b, 0))

\* a < b for numbers without leading zero limbs
BigLess(a, b) ==
    IF Len(a) # Len(b) THEN Len(a) < Len(b)
    ELSE \E i \in 1..Len(a) : a[i] < b[i] /\ \A j \in (i + 1)..Len(a) : a[j] = b[j]

\* limb i of a, 0 beyond its length
BigLimb(a, i) == IF i > Len(a) THEN 0 ELSE a[i]

\* the next digit of a long division estimated from the two top limbs of t
\* and the top limb of d: at most 2 too large when that limb is >= 2^14
BigEstimate(t, d) ==
    LET guess == (BigLimb(t, Len(d) + 1) * Limb + BigLimb(t, Len(d))) \div d[Len(d)]
    IN  IF guess < Limb THEN guess ELSE Limb - 1

\* the largest digit <= guess with d * digit <= t
RECURSIVE BigDigit(_, _, _)
BigDigit(t, d, guess) ==
    IF BigLess(t, BigMulSmall(d, guess)) THEN BigDigit(t, d, guess - 1) ELSE guess

\* one step of the long division: the digit `digit` of the quotient is known
BigDivStep(t, d, digit, q) == [q |-> <<digit>> \o q, r |-> BigSub(t, BigMulSmall(d, digit))]

\* the remainder so far with the next limb brought down
BigBringDown(limb, r) == BigTrim(<<limb>> \o r)

\* the step of the long division that divides t, the remainder so far with
\* the next limb brought down
BigDivNext(t, d, q) == BigDivStep(t, d, BigDigit(t, d, BigEstimate(t, d)), q)

\* long division, limbs taken from the top; acc.r < d is the remainder so far
RECURSIVE BigDivLimb(_, _, _, _)
BigDivLimb(n, d, i, acc) ==
    IF i = 0 THEN [q |-> BigTrim(acc.q), r |-> acc.r]
    ELSE BigDivLimb(n, d, i - 1, BigDivNext(BigBringDown(n[i], acc.r), d, acc.q))

\* n / d with both shifted so that the top limb of d is at least 2^14
BigDivNormal(n, d) == BigDivLimb(n, d, Len(n), [q |-> <<>>, r |-> <<>>])

\* [q, r'] with q the quotient of n by d # 0, and r' = <<>> iff the remainder is 0
BigDivBig(n, d) ==
    BigDivNormal(BigShl(n, LimbBits - BitLength(d[Len(d)])),
                 BigShl(d, LimbBits - BitLength(d[Len(d)])))

\* the double quotient x / y (y # 0): the quotient of the significands with
\* at least 56 bits, rounded to 53
DoubleRounded(qr, e) == Round53(qr.q, e, qr.r # <<>>)

DoubleQuotient(x, y, k) == DoubleRounded(BigDivBig(BigShl(x.m, k), y.m), x.e - y.e - k)

DoubleDiv(x, y) == DoubleQuotient(x, y, 56 + BigBits(y.m) - BigBits(x.m))

\* the double sum x + y
DoubleSum(x, y, e) == Round53(BigAdd(BigShl(x.m, x.e - e), BigShl(y.m, y.e - e), 0), e, FALSE)

DoubleAdd(x, y) == DoubleSum(x, y, IF x.e < y.e THEN x.e ELSE y.e)

\* x <= y and x = y on doubles
DoubleCompare(x, y, e) == ~BigLess(BigShl(y.m, y.e - e), BigShl(x.m, x.e - e))

DoubleLeq(x, y) == DoubleCompare(x, y, IF x.e < y.e THEN x.e ELSE y.e)

DoubleEq(x, y) == DoubleLeq(x, y) /\ DoubleLeq(y, x)

----------------------------------------------------------------------------
(* Constant tables *)

Variants == {"live", "calc"}

SILENTIA_LIFESPAN_YEARS == 10

COSTS ==
    [ silentiaScreen        |-> 1310,
      textileCurtain        |-> 800,
      disposableCurtain     |-> 700,
      textileCleaning       |-> 48,
      disposableCleaning    |-> 0,
      disposableReplacement |-> 700,
      silentiaCleaning      |-> 5 ]

\* cleanings per year; part_000 has no 'daily' entry
FREQUENCY_MULTIPLIER(v) ==
    IF v = "live"
    THEN [yearly |-> 1, quarterly |-> 4, monthly |-> 12, weekly |-> 52, daily |-> 365]
    ELSE [yearly |-> 1, quarterly |-> 4, monthly |-> 12, weekly |-> 52]

\* the data-type and data-frequency values of the page's toggle buttons
CurtainTypes == {"textile", "disposable"}

Frequencies(v) == DOMAIN FREQUENCY_MULTIPLIER(v)

NoAlert == "(none)"

InvalidQuantityAlert == "Please enter a valid number of curtains/screens"

\* rates per cleaning as the numeric literals of the source, [n, d] for n/d;
\* the wipe rate is 0.015 (kg) in calculator.js and 1 (wipe) in part_000
ENVIRONMENTAL(v) ==
    [ textile    |-> [ kWhPerCleaning   |-> <<30, 1>>,
                       waterPerCleaning |-> <<108, 1>> ],
      disposable |-> [ plasticPerUnit   |-> <<2, 1>> ],
      silentia   |-> [ kWhPerCleaning          |-> <<0, 1>>,
                       waterPerCleaning        |-> <<0, 1>>,
                       disinfectantPerCleaning |-> <<2, 100>>,
                       wipesPerCleaning        |->
                           IF v = "live" THEN <<15, 1000>> ELSE <<1, 1>> ] ]

----------------------------------------------------------------------------
(* Strings that the scripts parse: sequences of one-character strings *)

DigitChars == <<"0", "1", "2", "3", "4", "5", "6", "7", "8", "9">>

WhiteSpace == {" ", "\t", "\n"}

\* the value of a character as a digit of the given radix, or -1
DigitValue(c, radix) ==
    LET dec == {i \in 1..10 : DigitChars[i] = c}
        low == <<"a", "b", "c", "d", "e", "f">>
        upp == <<"A", "B", "C", "D", "E", "F">>
        hex == {i \in 1..6 : low[i] = c \/ upp[i] = c}
    IN  IF dec # {} THEN (CHOOSE i \in dec : TRUE) - 1
        ELSE IF radix = 16 /\ hex # {} THEN (CHOOSE i \in hex : TRUE) + 9
        ELSE -1

\* Number.prototype.toString / the digits toFixed(0) prints, for n >= 0
RECURSIVE DecimalText(_)
DecimalText(n) ==
    IF n < 10 THEN <<DigitChars[n + 1]>>
    ELSE DecimalText(n \div 10) \o <<DigitChars[(n % 10) + 1]>>

\* Number(text) for a text of decimal digits
RECURSIVE NumberOf(_)
NumberOf(text) ==
    IF text = <<>> THEN 0
    ELSE 10 * NumberOf(SubSeq(text, 1, Len(text) - 1)) + DigitValue(text[Len(text)], 10)

RECURSIVE SkipWhiteSpace(_)
SkipWhiteSpace(text) ==
    IF text # <<>> /\ text[1] \in WhiteSpace THEN SkipWhiteSpace(Tail(text)) ELSE text

\* the digits of the longest prefix of `text` in the radix, folded into a value;
\* [any, val]: any = FALSE when the prefix is empty
RECURSIVE ParseDigits(_, _, _)
ParseDigits(text, radix, acc) ==
    IF text = <<>> \/ DigitValue(text[1], radix) < 0 THEN acc
    ELSE ParseDigits(Tail(text), radix,
                     [any |-> TRUE, val |-> acc.val * radix + DigitValue(text[1], radix)])

NaN == [isNaN |-> TRUE, value |-> 0]

\* parseInt(text) without a radix: leading white space, a sign, an optional
\* 0x / 0X prefix, then the longest run of digits; NaN when there is none
parseInt(text) ==
    LET t1     == SkipWhiteSpace(text)
        signed == t1 # <<>> /\ t1[1] \in {"+", "-"}
        sign   == IF signed /\ t1[1] = "-" THEN -1 ELSE 1
        t2     == IF signed THEN Tail(t1) ELSE t1
        isHex  == Len(t2) >= 2 /\ t2[1] = "0" /\ t2[2] \in {"x", "X"}
        t3     == IF isHex THEN SubSeq(t2, 3, Len(t2)) ELSE t2
        d      == ParseDigits(t3, IF isHex THEN 16 ELSE 10, [any |-> FALSE, val |-> 0])
    IN  IF d.any THEN [isNaN |-> FALSE, value |-> sign * d.val] ELSE NaN

\* x || 0 for the result of parseInt: NaN and 0 are falsy
OrZero(x) == IF x.isNaN \/ x.value = 0 THEN 0 ELSE x.value

----------------------------------------------------------------------------
(* ROI calculation *)

\* Math.max(0, x) on a rational
MaxZero(x) == IF x.num < 0 THEN Whole(0) ELSE x

\* mutant: no savings is reported as the invalid state, not as the sentinel
breakEven_Invalid(initialDifference, annualSavings) ==
    IF annualSavings <= 0 THEN [years |-> Whole(0), valid |-> FALSE]
    ELSE [ years       |-> MaxZero(Frac(initialDifference, annualSavings)),
           valid       |-> TRUE,
           savings     |-> annualSavings,
           initialDiff |-> initialDifference ]

\* the end of calculateROI: the sentinel, or the clamped quotient
breakEven(initialDifference, annualSavings) ==
    IF annualSavings <= 0 THEN [years |-> Whole(999), valid |-> FALSE]
    ELSE [ years       |-> MaxZero(Frac(initialDifference, annualSavings)),
           valid       |-> TRUE,
           savings     |-> annualSavings,
           initialDiff |-> initialDifference ]

\* mutant: the screen's price is not multiplied by the quantity
silentiaInitial_PerUnit(c, qty) == c.silentiaScreen

silentiaInitial(c, qty) == qty * c.silentiaScreen

curtainInitial(c, s, qty) ==
    qty * (IF s.curtainType = "textile" THEN c.textileCurtain ELSE c.disposableCurtain)

silentiaAnnual(c, qty, cleaningsPerYear) == qty * c.silentiaCleaning * cleaningsPerYear

\* mutant: a disposable curtain is charged its cleaning cost, not its replacement
curtainAnnual_CleaningCost(c, s, qty, cleaningsPerYear) ==
    IF s.curtainType = "textile"
    THEN qty * c.textileCleaning * cleaningsPerYear
    ELSE qty * c.disposableCleaning * cleaningsPerYear

\* disposable curtains are replaced at each cleaning
curtainAnnual(c, s, qty, cleaningsPerYear) ==
    IF s.curtainType = "textile"
    THEN qty * c.textileCleaning * cleaningsPerYear
    ELSE qty * c.disposableReplacement * cleaningsPerYear

\* FREQUENCY_MULTIPLIER[state.cleaningFrequency]; a name the table lacks
\* (HasFrequency is FALSE) yields undefined
cleaningsPerYear(v, s) == FREQUENCY_MULTIPLIER(v)[s.cleaningFrequency]

HasFrequency(v, s) == s.cleaningFrequency \in DOMAIN FREQUENCY_MULTIPLIER(v)

\* NaN as a quotient: 0/0, which no comparison finds less than anything
NaNQuotient == [num |-> 0, den |-> 0]

\* calculateROI when cleaningsPerYear is undefined: the annual costs and the
\* savings are NaN, NaN <= 0 is false, and Math.max(0, NaN) is NaN
breakEvenNaN(initialDifference) ==
    [ years       |-> NaNQuotient,
      valid       |-> TRUE,
      savings     |-> NaNQuotient,
      initialDiff |-> initialDifference ]

\* mutant: the guard lets quantity 0 through
calculateROI_StrictGuard(c, v, s) ==
    IF s.quantity < 0 THEN [years |-> Whole(0), valid |-> FALSE]
    ELSE breakEven(
            silentiaInitial(c, s.quantity) - curtainInitial(c, s, s.quantity),
            curtainAnnual(c, s, s.quantity, cleaningsPerYear(v, s))
                - silentiaAnnual(c, s.quantity, cleaningsPerYear(v, s)))

calculateROI(c, v, s) ==
    IF s.quantity <= 0 THEN [years |-> Whole(0), valid |-> FALSE]
    ELSE IF ~HasFrequency(v, s)
    THEN breakEvenNaN(silentiaInitial(c, s.quantity) - curtainInitial(c, s, s.quantity))
    ELSE breakEven(
            silentiaInitial(c, s.quantity) - curtainInitial(c, s, s.quantity),
            curtainAnnual(c, s, s.quantity, cleaningsPerYear(v, s))
                - silentiaAnnual(c, s.quantity, cleaningsPerYear(v, s)))

----------------------------------------------------------------------------
(* Environmental impact calculation *)

null == [type |-> "null"]

\* qty * rate * cleaningsPerYear, evaluated left to right in doubles
Annual(qty, rate, perYear) ==
    DoubleTimes(DoubleTimes(DoubleOf(rate[1], rate[2]), qty), perYear)

\* mutant: the difference takes the wrong operand
Minus_WrongOperand(x, y) == y

\* x - y for two whole-valued doubles (energy, water: whole rates times whole
\* counts, exact in a double)
Minus(x, y) == DoubleOf(ToFixed(x, 0) - ToFixed(y, 0), 1)

\* x.toFixed(0): the decimal digits of the nearest whole number
ToFixed0(x) == DecimalText(ToFixed(x, 0))

\* parseFloat(x.toFixed(2)): the nearest number of hundredths
ToFixed2(x) == Frac(ToFixed(x, 2), 100)

\* how each script rounds the screen's disinfectant and wipes
SmallAmount(v, x) == IF v = "live" THEN ToFixed2(x) ELSE ToFixed0(x)

\* NaN.toFixed(0), and the amounts of the screen when they are NaN
NaNText == <<"N", "a", "N">>

NaNAmount(v) == IF v = "live" THEN NaNQuotient ELSE NaNText

\* calculateResources when cleaningsPerYear is undefined: every amount is NaN
calculateResourcesNaN(v, s) ==
    IF s.curtainType = "textile"
    THEN [ type                 |-> "textile",
           curtainKWh           |-> NaNText,
           curtainWater         |-> NaNText,
           silentiaKWh          |-> NaNText,
           silentiaWater        |-> NaNText,
           silentiaDisinfectant |-> NaNAmount(v),
           silentiaWipes        |-> NaNAmount(v),
           savedKWh             |-> NaNText,
           savedWater           |-> NaNText ]
    ELSE [ type                 |-> "disposable",
           plasticWaste         |-> NaNText,
           silentiaDisinfectant |-> NaNAmount(v),
           silentiaWipes        |-> NaNAmount(v),
           savedPlastic         |-> NaNText ]

calculateResources(v, s) ==
    LET qty              == s.quantity
        E                == ENVIRONMENTAL(v)
        perYear          == cleaningsPerYear(v, s)
        curtainKWh       == Annual(qty, E.textile.kWhPerCleaning, perYear)
        curtainWater     == Annual(qty, E.textile.waterPerCleaning, perYear)
        silentiaKWh      == Annual(qty, E.silentia.kWhPerCleaning, perYear)
        silentiaWater    == Annual(qty, E.silentia.waterPerCleaning, perYear)
        silentiaDisinfectant ==
            Annual(qty, E.silentia.disinfectantPerCleaning, perYear)
        silentiaWipes    == Annual(qty, E.silentia.wipesPerCleaning, perYear)
        plasticWaste     == Annual(qty, E.disposable.plasticPerUnit, perYear)
    IN  IF qty <= 0 THEN null
        ELSE IF ~HasFrequency(v, s) THEN calculateResourcesNaN(v, s)
        ELSE IF s.curtainType = "textile"
        THEN [ type                 |-> "textile",
               curtainKWh           |-> ToFixed0(curtainKWh),
               curtainWater         |-> ToFixed0(curtainWater),
               silentiaKWh          |-> ToFixed0(silentiaKWh),
               silentiaWater        |-> ToFixed0(silentiaWater),
               silentiaDisinfectant |-> SmallAmount(v, silentiaDisinfectant),
               silentiaWipes        |-> SmallAmount(v, silentiaWipes),
               savedKWh             |-> ToFixed0(Minus(curtainKWh, silentiaKWh)),
               savedWater           |-> ToFixed0(Minus(curtainWater, silentiaWater)) ]
        ELSE [ type                 |-> "disposable",
               plasticWaste         |-> ToFixed0(plasticWaste),
               silentiaDisinfectant |-> SmallAmount(v, silentiaDisinfectant),
               silentiaWipes        |-> SmallAmount(v, silentiaWipes),
               savedPlastic         |-> ToFixed0(plasticWaste) ]

----------------------------------------------------------------------------
(* Display *)

\* the day display shared by the day bucket and the week bucket's fallback
DayDisplay(years) ==
    LET days == MathRound(Times(years, 365))
    IN  [ text  |-> ToString(Max(1, days)),
          label |-> IF days = 1 THEN "DAY" ELSE "DAYS" ]

MonthDisplay(months) ==
    [ text |-> ToString(months), label |-> IF months = 1 THEN "MONTH" ELSE "MONTHS" ]

WeekDisplay(weeks) ==
    [ text |-> ToString(weeks), label |-> IF weeks = 1 THEN "WEEK" ELSE "WEEKS" ]

\* mutant: the decimal is always shown
YearDisplay_AlwaysDecimal(years) ==
    [ text  |-> ToString(MathRound(Times(years, 10)) \div 10) \o "."
                    \o ToString(MathRound(Times(years, 10)) % 10),
      label |-> IF MathRound(Times(years, 10)) > 10 THEN "YEARS" ELSE "YEAR" ]

\* the year bucket: one decimal place, dropped when the value is whole
\* (NaN fails every comparison on the way here and the two in here, and
\* NaN.toFixed(1) is "NaN")
YearDisplay(years) ==
    LET tenths == MathRound(Times(years, 10))          \* roundedYears = tenths / 10
        whole  == MathRound(Frac(tenths, 10))          \* Math.round(roundedYears)
    IN  IF years = NaNQuotient THEN [text |-> "NaN", label |-> "YEAR"]
        ELSE
        [ text  |-> IF Less(Whole(100 * Abs(tenths - 10 * whole)), Whole(10))
                    THEN ToString(whole)
                    ELSE ToString(tenths \div 10) \o "." \o ToString(tenths % 10),
          label |-> IF tenths > 10 THEN "YEARS" ELSE "YEAR" ]

\* mutant: 4 weeks are still shown as weeks
WeekBucket_OffByOne(v, years) ==
    IF MathRound(Times(years, 52)) > 4 THEN MonthDisplay(MathRound(Times(years, 12)))
    ELSE IF v = "live" /\ MathRound(Times(years, 52)) < 1 THEN DayDisplay(years)
    ELSE WeekDisplay(MathRound(Times(years, 52)))

\* years < 1/12: weeks, re-bucketed as months from 4 weeks on and (in
\* calculator.js) as days below 1 week
WeekBucket(v, years) ==
    IF MathRound(Times(years, 52)) >= 4 THEN MonthDisplay(MathRound(Times(years, 12)))
    ELSE IF v = "live" /\ MathRound(Times(years, 52)) < 1 THEN DayDisplay(years)
    ELSE WeekDisplay(MathRound(Times(years, 52)))

\* mutant: 12 months are not shown as 1 year
MonthBucket_NoYear(years) == MonthDisplay(MathRound(Times(years, 12)))

\* years < 1: months, 12 months shown as 1 year
MonthBucket(years) ==
    IF MathRound(Times(years, 12)) >= 12 THEN [text |-> "1", label |-> "YEAR"]
    ELSE MonthDisplay(MathRound(Times(years, 12)))

\* mutant: the boundaries belong to the lower bucket
Bucket_NonStrict(v, years) ==
    IF ~Less(years, Whole(SILENTIA_LIFESPAN_YEARS)) THEN [text |-> "10+", label |-> "YEARS"]
    ELSE IF v = "live" /\ ~Less(Frac(1, 52), years) THEN DayDisplay(years)
    ELSE IF ~Less(Frac(1, 12), years) THEN WeekBucket(v, years)
    ELSE IF ~Less(Whole(1), years) THEN MonthBucket(years)
    ELSE YearDisplay(years)

\* the buckets of a valid result, in the order the script tests them
\* (part_000 has no day bucket)
Bucket(v, years) ==
    IF Less(Whole(SILENTIA_LIFESPAN_YEARS), years) THEN [text |-> "10+", label |-> "YEARS"]
    ELSE IF v = "live" /\ Less(years, Frac(1, 52)) THEN DayDisplay(years)
    ELSE IF Less(years, Frac(1, 12)) THEN WeekBucket(v, years)
    ELSE IF Less(years, Whole(1)) THEN MonthBucket(years)
    ELSE YearDisplay(years)

\* the roi-years text and its label for a result of calculateROI
FormatDuration(v, roi) ==
    IF roi.valid /\ roi.years # Whole(999) THEN Bucket(v, roi.years)
    ELSE IF roi.years = Whole(999) THEN [text |-> "N/A", label |-> "YEARS"]
    ELSE [text |-> "--", label |-> "YEAR"]

\* a whole number and a number of hundredths as the doubles the script holds
DoubleInt(n) == [m |-> BigFromInt(n), e |-> 0]

DoubleHundredths(x) == DoubleOf(x.num, x.den)

\* total > 0 ? (value / total) * 100 : 0, on doubles
Percent(value, total) ==
    IF ~DoubleLeq(total, DoubleInt(0)) THEN DoubleTimes(DoubleDiv(value, total), 100)
    ELSE DoubleInt(0)

\* mutant: the smaller of the two
MathMax_Min(a, b) == IF DoubleLeq(a, b) THEN a ELSE b

\* Math.max on doubles
MathMax(a, b) == IF DoubleLeq(a, b) THEN b ELSE a

curtainTypeName(s) == IF s.curtainType = "textile" THEN "Textile" ELSE "Disposable"

\* the total of the curtain's bar and of the screen's bar
CurtainTotal(resources) ==
    IF resources.type = "textile"
    THEN DoubleAdd(DoubleInt(NumberOf(resources.curtainKWh)),
                   DoubleInt(NumberOf(resources.curtainWater)))
    ELSE DoubleInt(NumberOf(resources.plasticWaste))

SilentiaTotal(resources) ==
    DoubleAdd(DoubleHundredths(resources.silentiaDisinfectant),
              DoubleHundredths(resources.silentiaWipes))

\* the widths of the two bars and the shares of the screen's segments
Bars(s, resources, curtainTotal, silentiaTotal, maxTotal) ==
    [ curtainTypeName      |-> curtainTypeName(s),
      silentiaWipes        |-> resources.silentiaWipes,
      silentiaDisinfectant |-> resources.silentiaDisinfectant,
      curtainBarWidth      |-> Percent(curtainTotal, maxTotal),
      silentiaBarWidth     |-> Percent(silentiaTotal, maxTotal),
      silentiaDisinfPct    |->
          Percent(DoubleHundredths(resources.silentiaDisinfectant), silentiaTotal),
      silentiaWipesPct     |->
          Percent(DoubleHundredths(resources.silentiaWipes), silentiaTotal) ]

StackedBars(s, resources, curtainTotal, silentiaTotal) ==
    IF resources.type = "textile"
    THEN [ type             |-> "textile",
           bars             |-> Bars(s, resources, curtainTotal, silentiaTotal,
                                     MathMax(curtainTotal, silentiaTotal)),
           curtainKWh       |-> resources.curtainKWh,
           curtainWater     |-> resources.curtainWater,
           curtainEnergyPct |->
               Percent(DoubleInt(NumberOf(resources.curtainKWh)), curtainTotal),
           curtainWaterPct  |->
               Percent(DoubleInt(NumberOf(resources.curtainWater)), curtainTotal) ]
    ELSE [ type         |-> "disposable",
           bars         |-> Bars(s, resources, curtainTotal, silentiaTotal,
                                 MathMax(curtainTotal, silentiaTotal)),
           plasticWaste |-> resources.plasticWaste ]

\* the stacked bars of calculator.js
ResourcesChart(s, resources) ==
    StackedBars(s, resources, CurtainTotal(resources), SilentiaTotal(resources))

\* the text blocks of part_000: the fields of the result that it interpolates
ResourcesText(resources) ==
    IF resources.type = "textile"
    THEN [ type                 |-> "textile",
           curtainKWh           |-> resources.curtainKWh,
           curtainWater         |-> resources.curtainWater,
           silentiaDisinfectant |-> resources.silentiaDisinfectant,
           silentiaWipes        |-> resources.silentiaWipes,
           savedKWh             |-> resources.savedKWh,
           savedWater           |-> resources.savedWater ]
    ELSE [ type                 |-> "disposable",
           plasticWaste         |-> resources.plasticWaste,
           silentiaDisinfectant |-> resources.silentiaDisinfectant,
           silentiaWipes        |-> resources.silentiaWipes,
           savedPlastic         |-> resources.savedPlastic ]

EnterQuantity == [type |-> "message", text |-> "Enter quantity to calculate"]

\* what displayResults writes for the results roi and resources of the two
\* calculations: the roi-years text with its label, and resources-output
Shown(v, s, roi, resources) ==
    [ duration     |-> FormatDuration(v, roi),
      resourcesOut |-> IF resources = null THEN EnterQuantity
                       ELSE IF v = "live" THEN ResourcesChart(s, resources)
                       ELSE ResourcesText(resources) ]

displayResults(c, v, s) ==
    Shown(v, s, calculateROI(c, v, s), calculateResources(v, s))

\* three digits of a thousands group
Pad3(k) ==
    IF k < 10 THEN "00" \o ToString(k)
    ELSE IF k < 100 THEN "0" \o ToString(k)
    ELSE ToString(k)

\* value.toLocaleString('en-US') for a whole value >= 0
RECURSIVE toLocaleString(_)
toLocaleString(value) ==
    IF value < 1000 THEN ToString(value)
    ELSE toLocaleString(value \div 1000) \o "," \o Pad3(value % 1000)

formatCurrency(value) == "€" \o toLocaleString(value)

BarWidths(silentiaValue, curtainValue, maxValue) ==
    [ silentiaWidth |-> Percent(DoubleInt(silentiaValue), maxValue),
      curtainWidth  |-> Percent(DoubleInt(curtainValue), maxValue),
      silentiaValue |-> formatCurrency(silentiaValue),
      curtainValue  |-> formatCurrency(curtainValue) ]

createBarRow(silentiaValue, curtainValue) ==
    BarWidths(silentiaValue, curtainValue,
              MathMax(DoubleInt(silentiaValue), DoubleInt(curtainValue)))

EnterQuantityChart ==
    [type |-> "message", text |-> "Enter quantity and click Calculate to see chart"]

\* displayChart (calculator.js): what it writes to chart-output
displayChart(c, v, s) ==
    IF s.quantity <= 0 THEN EnterQuantityChart
    ELSE [ type            |-> "chart",
           curtainTypeName |-> curtainTypeName(s),
           initial         |->
               createBarRow(silentiaInitial(c, s.quantity),
                            curtainInitial(c, s, s.quantity)),
           annual          |->
               createBarRow(silentiaAnnual(c, s.quantity, cleaningsPerYear(v, s)),
                            curtainAnnual(c, s, s.quantity, cleaningsPerYear(v, s))),
           total           |->
               createBarRow(
                   silentiaInitial(c, s.quantity)
                     + (silentiaAnnual(c, s.quantity, cleaningsPerYear(v, s))
                          * SILENTIA_LIFESPAN_YEARS),
                   curtainInitial(c, s, s.quantity)
                     + (curtainAnnual(c, s, s.quantity, cleaningsPerYear(v, s))
                          * SILENTIA_LIFESPAN_YEARS)) ]

----------------------------------------------------------------------------
(* State and event handlers *)

Untouched == "(page)"

\* the texts a user can leave in the quantity field
InputTexts ==
    {DecimalText(n) : n \in 0..MaxQuantity}
    \cup {<<"-">> \o DecimalText(n) : n \in 1..MaxNegative}
    \cup { <<>>, <<"a", "b", "c">>, <<"2", ".", "7">>, <<" ", "4">>,
           <<"3", "x">>, <<"0", "x", "2">>, <<"+", "3">>, <<"-">>, <<"5", "0">> }

Init ==
    /\ variant \in Variants
    /\ costs = COSTS
    /\ state = [curtainType |-> "textile", cleaningFrequency |-> "quarterly", quantity |-> 0]
    /\ active = [type |-> Untouched, frequency |-> Untouched]
    /\ roiText = Untouched
    /\ yearLabel = Untouched
    /\ resourcesOut = [type |-> Untouched]
    /\ chartOut = [type |-> Untouched]
    /\ alerted = NoAlert

\* the three elements displayResults writes, set to what it computed
Write(shown) ==
    /\ roiText' = shown.duration.text
    /\ yearLabel' = shown.duration.label
    /\ resourcesOut' = shown.resourcesOut

\* the display after displayResults() ran on the state s
Render(s) == Write(displayResults(costs, variant, s))

\* mutant: the live update renders whatever the quantity
update_NoGuard(s) ==
    IF variant = "live"
    THEN /\ Render(s)
         /\ chartOut' = displayChart(costs, variant, s)
    ELSE UNCHANGED <<roiText, yearLabel, resourcesOut, chartOut>>

\* update() of calculator.js on the state s; part_000 has no live update
update(s) ==
    IF variant = "live" /\ s.quantity > 0
    THEN /\ Render(s)
         /\ chartOut' = displayChart(costs, variant, s)
    ELSE UNCHANGED <<roiText, yearLabel, resourcesOut, chartOut>>

\* click on a [data-type] button
ClickType(t) ==
    /\ state' = [state EXCEPT !.curtainType = t]
    /\ active' = [active EXCEPT !.type = t]
    /\ update(state')
    /\ alerted' = NoAlert
    /\ UNCHANGED <<variant, costs>>

\* click on a [data-frequency] button
ClickFrequency(f) ==
    /\ state' = [state EXCEPT !.cleaningFrequency = f]
    /\ active' = [active EXCEPT !.frequency = f]
    /\ update(state')
    /\ alerted' = NoAlert
    /\ UNCHANGED <<variant, costs>>

\* input event of the quantity field holding `text`
InputQuantity(text) ==
    /\ state' = [state EXCEPT !.quantity = OrZero(parseInt(text))]
    /\ update(state')
    /\ alerted' = NoAlert
    /\ UNCHANGED <<variant, costs, active>>

\* handleCalculate of part_000
handleCalculate ==
    IF state.quantity <= 0
    THEN /\ alerted' = InvalidQuantityAlert
         /\ UNCHANGED <<roiText, yearLabel, resourcesOut>>
    ELSE /\ Render(state)
         /\ alerted' = NoAlert

\* click on the .calculate-btn of part_000
ClickCalculate ==
    /\ variant = "calc"
    /\ handleCalculate
    /\ UNCHANGED <<variant, costs, state, active, chartOut>>

\* keypress in the quantity field of part_000: Enter calculates
KeypressQuantity(key) ==
    /\ variant = "calc"
    /\ IF key = "Enter" THEN handleCalculate
       ELSE UNCHANGED <<roiText, yearLabel, resourcesOut, alerted>>
    /\ UNCHANGED <<variant, costs, state, active, chartOut>>

Keys == {"Enter", "5"}

Next ==
    \/ \E t \in CurtainTypes : ClickType(t)
    \/ \E f \in Frequencies(variant) : ClickFrequency(f)
    \/ \E text \in InputTexts : InputQuantity(text)
    \/ ClickCalculate
    \/ \E key \in Keys : KeypressQuantity(key)

Spec == Init /\ [][Next]_vars

----------------------------------------------------------------------------
(* The calculation and display functions on their own.                     *)
(*                                                                         *)
(* The page only ever calls displayResults with the baked-in table and a   *)
(* positive quantity.  EngineSpec applies displayResults and displayChart  *)
(* to every state of a bounded set and to cost tables other than COSTS, so *)
(* that each branch of calculateROI and each bucket of the duration        *)
(* display is exercised.                                                   *)

\* textile cleaning costs around the screen's cleaning cost
CleaningCosts == {3, 5, 6, 7, COSTS.textileCleaning}

\* a table in which no option costs anything to run
FreeRunning ==
    [COSTS EXCEPT !.silentiaCleaning = 0, !.textileCleaning = 0, !.disposableReplacement = 0]

CostTables ==
    {COSTS, FreeRunning} \cup
    { [COSTS EXCEPT !.silentiaScreen = COSTS.textileCurtain + k, !.textileCleaning = t] :
        k \in (-1)..MaxDiff, t \in CleaningCosts }

EngineInit ==
    /\ variant \in Variants
    /\ costs \in CostTables
    /\ state \in [ curtainType       : CurtainTypes,
                   cleaningFrequency : Frequencies(variant),
                   quantity          : (-1)..MaxEngineQuantity ]
    /\ active = [type |-> Untouched, frequency |-> Untouched]
    /\ roiText = Untouched
    /\ yearLabel = Untouched
    /\ resourcesOut = [type |-> Untouched]
    /\ chartOut = [type |-> Untouched]
    /\ alerted = NoAlert

\* the frequencies a page can offer: those of calculator.js
FrequencyNames == DOMAIN FREQUENCY_MULTIPLIER("live")

\* the calculations on the baked-in table, for each of the frequencies
TableInit ==
    /\ variant \in Variants
    /\ costs = COSTS
    /\ state \in [ curtainType       : CurtainTypes,
                   cleaningFrequency : FrequencyNames,
                   quantity          : 1..MaxTableQuantity ]
    /\ active = [type |-> Untouched, frequency |-> Untouched]
    /\ roiText = Untouched
    /\ yearLabel = Untouched
    /\ resourcesOut = [type |-> Untouched]
    /\ chartOut = [type |-> Untouched]
    /\ alerted = NoAlert

\* a call of displayResults()
CallDisplayResults ==
    /\ Render(state)
    /\ UNCHANGED <<variant, costs, state, active, chartOut, alerted>>

\* a call of displayChart() (calculator.js)
CallDisplayChart ==
    /\ variant = "live"
    /\ chartOut' = displayChart(costs, variant, state)
    /\ UNCHANGED <<variant, costs, state, active, roiText, yearLabel, resourcesOut, alerted>>

EngineNext == CallDisplayResults \/ CallDisplayChart

EngineSpec == EngineInit /\ [][EngineNext]_vars

TableSpec == TableInit /\ [][EngineNext]_vars

----------------------------------------------------------------------------
(* Claims *)

\* the display shows what displayResults wrote (not the page's initial content)
Rendered == roiText # Untouched

InvalidResult == [years |-> Whole(0), valid |-> FALSE]

SentinelResult == [years |-> Whole(999), valid |-> FALSE]

\* C1 (EngineSpec): with a quantity <= 0, whatever the curtain type and the
\* frequency, calculateROI returns {years: 0, valid: false} and
\* calculateResources returns null; evaluating them divides by nothing.
C1_InvalidOnNonPositiveQuantity ==
    state.quantity <= 0 =>
        /\ calculateROI(costs, variant, state) = InvalidResult
        /\ calculateResources(variant, state) = null

\* displayResults ran on a state with quantity 0 and showed the placeholders
C1_Witness ==
    /\ state.quantity = 0
    /\ roiText = "--"
    /\ resourcesOut = EnterQuantity

\* the constants C2 states
C2_PerYear == [yearly |-> 1, quarterly |-> 4, monthly |-> 12, weekly |-> 52, daily |-> 365]

C2_U == IF state.curtainType = "textile" THEN 800 ELSE 700

C2_C == IF state.curtainType = "textile" THEN 48 ELSE 700

C2_InitialDiff == state.quantity * 1310 - state.quantity * C2_U

C2_Savings ==
    state.quantity * C2_C * C2_PerYear[state.cleaningFrequency]
        - state.quantity * 5 * C2_PerYear[state.cleaningFrequency]

\* C2 (Spec): with quantity > 0 and annual savings > 0, calculateROI returns
\* valid = true, years = max(0, (qty*1310 - qty*U) / (qty*C*f - qty*5*f)) with
\* (U, C) = (800, 48) for textile and (700, 700) for disposable, and the two
\* terms as savings and initialDiff.
C2_BreakEvenFormula ==
    (state.quantity > 0 /\ C2_Savings > 0) =>
        calculateROI(costs, variant, state) =
            [ years       |-> IF C2_InitialDiff < 0 THEN Whole(0)
                              ELSE Frac(C2_InitialDiff, C2_Savings),
              valid       |-> TRUE,
              savings     |-> C2_Savings,
              initialDiff |-> C2_InitialDiff ]

\* three disposable curtains replaced weekly, rendered: 6 days
C2_Witness ==
    /\ state = [curtainType |-> "disposable", cleaningFrequency |-> "weekly", quantity |-> 3]
    /\ C2_Savings > 0
    /\ roiText = "6"
    /\ yearLabel = "DAYS"

\* the annual savings, from the cost table in use
C3_Savings ==
    state.quantity * cleaningsPerYear(variant, state)
        * ((IF state.curtainType = "textile"
            THEN costs.textileCleaning ELSE costs.disposableReplacement)
           - costs.silentiaCleaning)

\* C3 (EngineSpec): with quantity > 0 and annual savings <= 0, calculateROI
\* returns the sentinel (years = 999, valid = false) and the display shows
\* "N/A" / "YEARS"; the invalid state (quantity <= 0) shows "--" / "YEAR".
C3_SentinelWhenNoSavings ==
    /\ (state.quantity > 0 /\ C3_Savings <= 0) =>
          /\ calculateROI(costs, variant, state) = SentinelResult
          /\ Rendered => (roiText = "N/A" /\ yearLabel = "YEARS")
    /\ (state.quantity <= 0 /\ Rendered) => (roiText = "--" /\ yearLabel = "YEAR")

\* a table whose textile cleaning is cheaper than the screen's, rendered
C3_Witness ==
    /\ state.quantity > 0
    /\ C3_Savings < 0
    /\ roiText = "N/A"

\* C4 (Spec): for a fixed curtain type and frequency, calculateROI returns the
\* same years, and the display the same magnitude and unit, for every
\* quantity > 0.
C4_QuantityIndependent ==
    state.quantity > 0 =>
        \A q \in 1..(MaxQuantity + 1) :
            /\ calculateROI(costs, variant, [state EXCEPT !.quantity = q]).years
                 = calculateROI(costs, variant, state).years
            /\ FormatDuration(variant, calculateROI(costs, variant, [state EXCEPT !.quantity = q]))
                 = FormatDuration(variant, calculateROI(costs, variant, state))

\* the live page rendered the largest quantity
C4_Witness ==
    /\ variant = "live"
    /\ state.quantity = MaxQuantity
    /\ roiText = FormatDuration(variant, calculateROI(costs, variant, state)).text

\* the number an amount of the result stands for: a number in calculator.js,
\* the digits of a whole number in part_000
C6_Value(v, x) == IF v = "live" THEN x ELSE Whole(NumberOf(x))

\* x is n/d rounded to two decimal places: a whole number of hundredths at
\* most half a hundredth away from n/d
C6_TwoDecimals(x, n, d) ==
    /\ 100 % x.den = 0
    /\ 200 * Abs(x.num * d - n * x.den) <= x.den * d

\* the amounts C6 states, for the result r of the state s: k is quantity x
\* cleanings per year, wipes the wipe rate of the script's table
C6_Amounts(v, s, r, k, wipes) ==
    /\ r.type = (IF s.curtainType = "textile" THEN "textile" ELSE "disposable")
    /\ r.type = "textile" =>
          /\ r.curtainKWh = DecimalText(30 * k)
          /\ r.curtainWater = DecimalText(108 * k)
    /\ r.type = "disposable" => r.plasticWaste = DecimalText(2 * k)
    /\ C6_TwoDecimals(C6_Value(v, r.silentiaDisinfectant), 2 * k, 100)
    /\ C6_TwoDecimals(C6_Value(v, r.silentiaWipes), wipes[1] * k, wipes[2])

\* C6 (Spec): for quantity > 0, calculateResources reports each annual amount as
\* rate x quantity x cleanings per year (30 kWh, 108 L, 2 kg plastic, 0.02 L
\* disinfectant, the wipe rate), energy, water and plastic as whole units and
\* disinfectant and wipes rounded to two decimal places, tagged by curtain type.
C6_ResourceAmounts ==
    state.quantity > 0 =>
        C6_Amounts(variant, state, calculateResources(variant, state),
                   state.quantity * C2_PerYear[state.cleaningFrequency],
                   ENVIRONMENTAL(variant).silentia.wipesPerCleaning)

\* the same statement for calculator.js alone
C6_ResourceAmountsLive == variant = "live" => C6_ResourceAmounts

C7_Saved(r) ==
    IF r.type = "textile"
    THEN /\ r.savedKWh = r.curtainKWh
         /\ r.savedWater = r.curtainWater
         /\ r.silentiaKWh = <<"0">>
         /\ r.silentiaWater = <<"0">>
    ELSE r.savedPlastic = r.plasticWaste

\* C7 (Spec): for quantity > 0, the textile result has savedKWh = curtainKWh and
\* savedWater = curtainWater, the screen's energy and water being 0, and the
\* disposable result has savedPlastic = plasticWaste.
C7_SavedIsFullConsumption ==
    state.quantity > 0 => C7_Saved(calculateResources(variant, state))

\* part_000 displayed the savings of textile curtains
C7_Witness ==
    /\ variant = "calc"
    /\ state.quantity > 0
    /\ state.curtainType = "textile"
    /\ resourcesOut.type = "textile"
    /\ resourcesOut.savedKWh = DecimalText(30 * state.quantity * C2_PerYear[state.cleaningFrequency])

\* the result displayResults formats in the current state
CurrentROI == calculateROI(costs, variant, state)

\* round(years x k)
C8_Round(years, k) == (2 * k * years.num + years.den) \div (2 * years.den)

C8_Days(years) == IF C8_Round(years, 365) < 1 THEN 1 ELSE C8_Round(years, 365)

C8_DayBucketOf(roi) ==
    (roi.valid /\ ~Less(Whole(10), roi.years) /\ Less(roi.years, Frac(1, 52))) =>
        /\ roiText = ToString(C8_Days(roi.years))
        /\ yearLabel = (IF C8_Days(roi.years) = 1 THEN "DAY" ELSE "DAYS")

C8_DayBucketUnfloored ==
    (variant = "live" /\ Rendered /\ C8_Round(CurrentROI.years, 365) >= 1)
        => C8_DayBucketOf(CurrentROI)

C9_WeekBucketOf(roi) ==
    (roi.valid /\ ~Less(roi.years, Frac(1, 52)) /\ Less(roi.years, Frac(1, 12))) =>
        IF C8_Round(roi.years, 52) >= 4
        THEN /\ roiText = ToString(C8_Round(roi.years, 12))
             /\ yearLabel = (IF C8_Round(roi.years, 12) = 1 THEN "MONTH" ELSE "MONTHS")
             /\ roiText = "1"
             /\ yearLabel = "MONTH"
        ELSE IF C8_Round(roi.years, 52) < 1
        THEN /\ roiText = ToString(C8_Days(roi.years))
             /\ yearLabel \in {"DAY", "DAYS"}
        ELSE /\ roiText = ToString(C8_Round(roi.years, 52))
             /\ yearLabel = (IF C8_Round(roi.years, 52) = 1 THEN "WEEK" ELSE "WEEKS")

\* C9 (EngineSpec): a valid result with 1/52 <= years < 1/12 displays, with
\* weeks = round(years x 52): round(years x 12) MONTH/MONTHS when weeks >= 4
\* (which reads "1" "MONTH"), the day display when weeks < 1, and otherwise
\* weeks with "WEEK" if and only if weeks = 1.
C9_WeekBucket == Rendered => C9_WeekBucketOf(CurrentROI)

\* a result in the week bucket that rounds to 4 weeks, rendered as 1 month
C9_Witness ==
    /\ Rendered
    /\ CurrentROI.valid
    /\ ~Less(CurrentROI.years, Frac(1, 52))
    /\ Less(CurrentROI.years, Frac(1, 12))
    /\ C8_Round(CurrentROI.years, 52) = 4
    /\ roiText = "1"

C10_MonthBucketOf(roi) ==
    (roi.valid /\ ~Less(roi.years, Frac(1, 12)) /\ Less(roi.years, Whole(1))) =>
        IF C8_Round(roi.years, 12) >= 12
        THEN roiText = "1" /\ yearLabel = "YEAR"
        ELSE /\ roiText = ToString(C8_Round(roi.years, 12))
             /\ yearLabel = (IF C8_Round(roi.years, 12) = 1 THEN "MONTH" ELSE "MONTHS")
             /\ C8_Round(roi.years, 12) \in 1..11

\* C10 (EngineSpec): a valid result with 1/12 <= years < 1 displays, with
\* months = round(years x 12): "1" "YEAR" when months >= 12, otherwise months
\* (between 1 and 11) with "MONTH" if and only if months = 1.
C10_MonthBucket == Rendered => C10_MonthBucketOf(CurrentROI)

\* a result below one year that rounds to 12 months, rendered as 1 year
C10_Witness ==
    /\ Rendered
    /\ CurrentROI.valid
    /\ Less(CurrentROI.years, Whole(1))
    /\ C8_Round(CurrentROI.years, 12) = 12
    /\ roiText = "1"
    /\ yearLabel = "YEAR"

\* years rounded to one decimal place, in tenths
C11_Tenths(years) == C8_Round(years, 10)

\* the integer nearest to tenths / 10, and whether tenths / 10 is within 0.01 of it
C11_Nearest(tenths) == (tenths + 5) \div 10

C11_NearWhole(tenths) == 100 * Abs(tenths - 10 * C11_Nearest(tenths)) < 10

C11_InYearBucket(roi) ==
    roi.valid /\ ~Less(roi.years, Whole(1)) /\ ~Less(Whole(10), roi.years)

C11_YearBucketOf(roi) ==
    C11_InYearBucket(roi) =>
        /\ roiText = IF C11_NearWhole(C11_Tenths(roi.years))
                     THEN ToString(C11_Nearest(C11_Tenths(roi.years)))
                     ELSE ToString(C11_Tenths(roi.years) \div 10) \o "."
                              \o ToString(C11_Tenths(roi.years) % 10)
        /\ yearLabel = IF C11_Tenths(roi.years) <= 10 THEN "YEAR" ELSE "YEARS"

\* C11 (EngineSpec): a valid result with 1 <= years <= 10 displays years
\* rounded to one decimal place, as the integer alone when the rounded value is
\* within 0.01 of an integer, with the unit "YEAR" if and only if the rounded
\* value is at most 1.
C11_YearBucket == Rendered => C11_YearBucketOf(CurrentROI)

\* a result in the year bucket whose rounded value is whole, shown without decimal
C11_Witness ==
    /\ Rendered
    /\ C11_InYearBucket(CurrentROI)
    /\ C11_NearWhole(C11_Tenths(CurrentROI.years))
    /\ C11_Tenths(CurrentROI.years) > 10
    /\ CurrentROI.years.den # 1

\* a result in the year bucket shown with its decimal
C11_DecimalShown ==
    /\ Rendered
    /\ C11_InYearBucket(CurrentROI)
    /\ ~C11_NearWhole(C11_Tenths(CurrentROI.years))

C12_Shows(text, label) == roiText = text /\ yearLabel = label

\* the buckets whose range, read in the order of the comparisons, holds years
C12_Buckets(years) ==
    { b \in {"over", "days", "weeks", "months", "years"} :
        \/ b = "over"   /\ Less(Whole(10), years)
        \/ b = "days"   /\ ~Less(Whole(10), years) /\ Less(years, Frac(1, 52))
        \/ b = "weeks"  /\ ~Less(years, Frac(1, 52)) /\ Less(years, Frac(1, 12))
        \/ b = "months" /\ ~Less(years, Frac(1, 12)) /\ Less(years, Whole(1))
        \/ b = "years"  /\ ~Less(years, Whole(1)) /\ ~Less(Whole(10), years) }

C12_BoundariesOf(roi) ==
    roi.valid =>
        /\ Less(Whole(10), roi.years) => C12_Shows("10+", "YEARS")
        /\ roi.years = Whole(10)      => C12_Shows("10", "YEARS")
        /\ roi.years = Frac(1, 52)    => C12_Shows("1", "WEEK")
        /\ roi.years = Frac(1, 12)    => C12_Shows("1", "MONTH")
        /\ roi.years = Whole(1)       => C12_Shows("1", "YEAR")
        /\ ~Less(roi.years, Whole(0)) /\ Cardinality(C12_Buckets(roi.years)) = 1

\* C12 (EngineSpec): the bucket boundaries are strict: years > 10 displays
\* "10+" "YEARS" and years = 10 displays "10" "YEARS"; years = 1/52 displays
\* "1" "WEEK", years = 1/12 displays "1" "MONTH", years = 1 displays "1" "YEAR";
\* and every valid years is >= 0 and lies in exactly one bucket.
C12_Boundaries == Rendered => C12_BoundariesOf(CurrentROI)

\* calculator.js has displayed a result of exactly 1/52 years
C12_Witness ==
    variant = "live" /\ Rendered /\ CurrentROI.valid /\ CurrentROI.years = Frac(1, 52)

C12_AtTen == Rendered /\ CurrentROI.valid /\ CurrentROI.years = Whole(10)

C12_AtMonth == Rendered /\ CurrentROI.valid /\ CurrentROI.years = Frac(1, 12)

C12_AtYear == Rendered /\ CurrentROI.valid /\ CurrentROI.years = Whole(1)

C12_Over == Rendered /\ CurrentROI.valid /\ Less(Whole(10), CurrentROI.years)

\* the texts of the magnitudes from 1 up: whole numbers and one-decimal values
\* (no bucket displays more than 11 months or 10 years)
C13_AtLeastOne ==
    { ToString(n) : n \in 1..11 } \cup
    { ToString(n) \o "." \o ToString(d) : n \in 1..SILENTIA_LIFESPAN_YEARS, d \in 0..9 }

C13_NeverZeroOf(roi) ==
    (roi.valid /\ ~Less(roi.years, Whole(0))) =>
        /\ roiText # "0"
        /\ roiText = "10+" \/ roiText \in C13_AtLeastOne

C13_NeverZeroLive == (variant = "live" /\ Rendered) => C13_NeverZeroOf(CurrentROI)

\* calculator.js has displayed a valid result whose days round to 0
C13_LiveFloored ==
    /\ variant = "live" /\ Rendered /\ CurrentROI.valid
    /\ C8_Round(CurrentROI.years, 365) = 0

\* the parameters of the worked example
C14_Example == [curtainType |-> "disposable", cleaningFrequency |-> "weekly", quantity |-> 50]

\* a step that displays the example: any event of calculator.js that leaves
\* the example in the state, a calculation of part_000 on the example
C14_Displays ==
    \/ variant = "live" /\ state' = C14_Example /\ Next
    \/ variant = "calc" /\ state = C14_Example
                        /\ (ClickCalculate \/ KeypressQuantity("Enter"))

C14_Result(roi) ==
    /\ roi.valid
    /\ roi.initialDiff = 30500
    /\ roi.savings = 1807000
    /\ roi.years = Frac(30500, 1807000)
    /\ Less(roi.years, Frac(1, 52))

C14_Step == C14_Displays => (C14_Result(calculateROI(costs, variant, state'))
                                /\ roiText' = "6" /\ yearLabel' = "DAYS")

\* C14 (Spec): with quantity 50, disposable, weekly, calculateROI yields
\* initialDiff 30500 and savings 1807000 (years below 1/52) and the display
\* shows "6" "DAYS".
C14_WorkedExample == [][C14_Step]_vars

\* the same statement for calculator.js alone
C14_WorkedExampleLive == [][variant = "live" => C14_Step]_vars

\* calculator.js shows the example
C14_LiveShown ==
    variant = "live" /\ state = C14_Example /\ roiText = "6" /\ yearLabel = "DAYS"

C15_Hundred == DoubleInt(100)

C15_InRange(p) == DoubleLeq(DoubleInt(0), p) /\ DoubleLeq(p, C15_Hundred)

\* value / total x 100 when total > 0 and 0 otherwise
C15_Share(value, total) ==
    IF total > 0 THEN DoubleTimes(DoubleDiv(DoubleInt(value), DoubleInt(total)), 100)
    ELSE DoubleInt(0)

\* a row of the cost chart drawn for the values a (screen) and b (curtain)
C15_Row(row, a, b) ==
    /\ DoubleEq(row.silentiaWidth, C15_Share(a, IF a >= b THEN a ELSE b))
    /\ DoubleEq(row.curtainWidth, C15_Share(b, IF a >= b THEN a ELSE b))
    /\ C15_InRange(row.silentiaWidth) /\ C15_InRange(row.curtainWidth)
    /\ (a > 0 \/ b > 0) =>
           DoubleEq(IF a >= b THEN row.silentiaWidth ELSE row.curtainWidth, C15_Hundred)

C15_CostChart ==
    chartOut.type = "chart" =>
        /\ C15_Row(chartOut.initial, silentiaInitial(costs, state.quantity),
                   curtainInitial(costs, state, state.quantity))
        /\ C15_Row(chartOut.annual,
                   silentiaAnnual(costs, state.quantity, cleaningsPerYear(variant, state)),
                   curtainAnnual(costs, state, state.quantity,
                                 cleaningsPerYear(variant, state)))
        /\ C15_InRange(chartOut.total.silentiaWidth)
        /\ C15_InRange(chartOut.total.curtainWidth)
        /\ \/ DoubleEq(chartOut.total.silentiaWidth, C15_Hundred)
           \/ DoubleEq(chartOut.total.curtainWidth, C15_Hundred)

\* the stacked bars are drawn
C15_Stacked == variant = "live" /\ resourcesOut.type \in {"textile", "disposable"}

C15_StackedBars ==
    C15_Stacked =>
        /\ C15_InRange(resourcesOut.bars.curtainBarWidth)
        /\ C15_InRange(resourcesOut.bars.silentiaBarWidth)
        /\ C15_InRange(resourcesOut.bars.silentiaDisinfPct)
        /\ C15_InRange(resourcesOut.bars.silentiaWipesPct)
        /\ \/ DoubleEq(resourcesOut.bars.curtainBarWidth, C15_Hundred)
           \/ DoubleEq(resourcesOut.bars.silentiaBarWidth, C15_Hundred)
        /\ resourcesOut.type = "textile" =>
               /\ C15_InRange(resourcesOut.curtainEnergyPct)
               /\ C15_InRange(resourcesOut.curtainWaterPct)

\* the sums of the segment shares of the bars drawn
C15_SilentiaShares ==
    DoubleAdd(resourcesOut.bars.silentiaDisinfPct, resourcesOut.bars.silentiaWipesPct)

C15_CurtainShares == DoubleAdd(resourcesOut.curtainEnergyPct, resourcesOut.curtainWaterPct)

\* x is 100 to within 2^-20
C15_About100(x) ==
    /\ DoubleLeq([m |-> BigFromInt(100 * 2^20 - 1), e |-> -20], x)
    /\ DoubleLeq(x, [m |-> BigFromInt(100 * 2^20 + 1), e |-> -20])

\* C15 as stated (EngineSpec, calculator.js): a width is value / max x 100
\* when the max is > 0 and 0 otherwise, every percentage lies in [0, 100], the
\* larger bar is exactly 100, and the segment shares of a bar add up to 100.
C15_Proportions ==
    /\ C15_CostChart
    /\ C15_StackedBars
    /\ C15_Stacked =>
           /\ DoubleEq(C15_SilentiaShares, C15_Hundred)
           /\ resourcesOut.type = "textile" => DoubleEq(C15_CurtainShares, C15_Hundred)

\* C15 as amended (EngineSpec, calculator.js): as stated, except that the
\* segment shares of a bar add up to 100 only to within the rounding of the
\* double arithmetic.
C15_ProportionsRounded ==
    /\ C15_CostChart
    /\ C15_StackedBars
    /\ C15_Stacked =>
           /\ C15_About100(C15_SilentiaShares)
           /\ resourcesOut.type = "textile" => C15_About100(C15_CurtainShares)

\* stacked bars whose screen segments do not add up to exactly 100
C15_Witness == C15_Stacked /\ ~DoubleEq(C15_SilentiaShares, C15_Hundred)

\* a row of the cost chart whose two values are 0
C15_ZeroRow ==
    /\ chartOut.type = "chart"
    /\ chartOut.annual.curtainValue = formatCurrency(0)
    /\ DoubleEq(chartOut.annual.curtainWidth, DoubleInt(0))
    /\ DoubleEq(chartOut.annual.silentiaWidth, DoubleInt(0))

\* C16 (Spec): after any sequence of clicks and quantity inputs,
\* state.quantity is a non-negative integer.
C16_QuantityNonNegative == state.quantity \in Nat

\* what does hold: the quantity is an integer, negative only as far as the
\* text typed is
C16_QuantityInteger == state.quantity \in Int /\ state.quantity >= -MaxNegative

\* calculator.js with a quantity > 0 shows what the two display functions
\* compute from the state: every event that left the quantity > 0 rendered them
C17_Fresh ==
    (variant = "live" /\ state.quantity > 0) =>
        /\ [ duration     |-> [text |-> roiText, label |-> yearLabel],
             resourcesOut |-> resourcesOut ] = displayResults(costs, variant, state)
        /\ chartOut = displayChart(costs, variant, state)

C17_DisplayKept == UNCHANGED <<roiText, yearLabel, resourcesOut, chartOut>>

C17_Calculates == ClickCalculate \/ KeypressQuantity("Enter")

C17_Step ==
    /\ (variant = "live" /\ state'.quantity <= 0) => C17_DisplayKept
    /\ (variant = "calc" /\ state.quantity <= 0 /\ C17_Calculates)
           => (alerted' = InvalidQuantityAlert /\ C17_DisplayKept)
    /\ roiText' # "--"
    /\ resourcesOut' # EnterQuantity
    /\ chartOut' # EnterQuantityChart

\* C17 (Spec): in calculator.js an event that leaves quantity > 0 renders the
\* displays from the state it leaves and an event that leaves quantity <= 0
\* leaves the displays as they were; in part_000 a calculation with
\* quantity <= 0 raises the prompt and leaves the display as it was; the "--"
\* placeholder and the 'Enter quantity' messages are never rendered.
C17_LiveUpdateGuard == [](C17_Fresh) /\ [][C17_Step]_vars

\* calculator.js keeps an earlier result on display after the quantity was
\* cleared
C17_Witness == variant = "live" /\ state.quantity <= 0 /\ Rendered

\* part_000 has raised the prompt
C17_Prompted == variant = "calc" /\ alerted = InvalidQuantityAlert

\* the cleanings per year the five frequencies stand for
C18_PerYear == [yearly |-> 1, quarterly |-> 4, monthly |-> 12, weekly |-> 52, daily |-> 365]

C18_Defined ==
    /\ HasFrequency(variant, state)
    /\ cleaningsPerYear(variant, state) = C18_PerYear[state.cleaningFrequency]

C18_ValidOf(roi) ==
    /\ roi.valid
    /\ roi.years # NaNQuotient
    /\ roi.years # Whole(999)
    /\ Less(Whole(0), roi.years)
    /\ roi.savings > 0
    /\ roi.initialDiff > 0

C18_NoNaNShown == roiText # "NaN" /\ roiText # "N/A" /\ roiText # "--"

\* C18 (TableSpec): with the baked-in table, every curtain type, each of the
\* five frequencies and every quantity > 0, the frequency maps to its
\* cleanings per year (1, 4, 12, 52, 365) and calculateROI returns valid with
\* a finite years > 0, positive savings and positive initial difference.
C18_AllFrequenciesDefined ==
    Rendered => (C18_Defined /\ C18_ValidOf(CurrentROI) /\ C18_NoNaNShown)

\* the same statement for the frequencies the script's own table names
C18_OwnFrequenciesDefined ==
    (Rendered /\ HasFrequency(variant, state))
        => (C18_Defined /\ C18_ValidOf(CurrentROI) /\ C18_NoNaNShown)

\* part_000 has displayed the result for a frequency its table lacks
C18_Undefined ==
    /\ variant = "calc" /\ state.cleaningFrequency = "daily"
    /\ roiText = "NaN" /\ yearLabel = "YEAR"

====
